---- MODULE Spec2Model ----
(***************************************************************************)
(* The upload -> analyze -> display workflow of the App component.         *)
(* State is the four useState cells of App plus what is in flight: the     *)
(* pending handleUpload invocations (each suspended at one of its two      *)
(* awaits), the armed error timers, and the calls made to the report       *)
(* collaborator together with the alerts shown.                            *)
(***************************************************************************)
EXTENDS Integers, Sequences, FiniteSets, TLC

\* ---------------------------------------------------------------- bounds
MaxSubmissions == 2   \* handleUpload invocations per behaviour
MaxDispatch == 1      \* report-dispatch calls per behaviour

\* ----------------------------------------------------------------- types
\* enum AnalysisStatus
IDLE == "IDLE"
UPLOADING == "UPLOADING"
ANALYZING == "ANALYZING"
COMPLETE == "COMPLETE"
ERROR == "ERROR"
AnalysisStatus == {IDLE, UPLOADING, ANALYZING, COMPLETE, ERROR}

\* null of useState<... | null>
Null == [null |-> TRUE]

\* interface UserProfile (badgeId follows the name in this model)
UserProfile == {[name |-> "alice", email |-> "alice@pd"],
                [name |-> "bob", email |-> "bob@pd"]}

\* the optional argument of handleDownloadReport: undefined, "" or an address
NoEmail == "undefined"
EmailArg == {NoEmail, "", "lab@pd"}

\* File[] arguments of handleUpload. A File is opaque to App, which only maps
\* it to a URL and hands the list on, so the submissions differ in nothing
\* but the references they are given: two photographs each.
FileLists == {<<"floor.jpg", "table.jpg">>}

\* what analyzeCrimeSceneImages may resolve with: a CrimeSceneAnalysis whose
\* optional imageUrls is absent (empty here) or already filled by the service
BlobUrl(n) == <<"blob", n>>
ServiceUrl == <<"service", 0>>
Results == {[summary |-> "scene", imageUrls |-> <<>>],
            [summary |-> "scene", imageUrls |-> <<ServiceUrl>>]}

VARIABLES
  user,            \* useState<UserProfile | null>
  status,          \* useState<AnalysisStatus>
  analysisData,    \* useState<CrimeSceneAnalysis | null>
  uploadedImages,  \* useState<string[]>
  uploads,         \* the handleUpload invocations, in submission order
  nextUrl,         \* URL.createObjectURL hands out a fresh blob URL per call
  errorTimers,     \* armed setTimeout(() => setStatus(IDLE), 3000) callbacks,
                   \* oldest first, each with the number of submissions made
                   \* before it was armed
  reports,         \* calls of generateAndSendReport awaiting their outcome:
                   \* the three arguments, and the request they came from
  alerts,          \* alert() messages shown, each with the outcome it reports
  lastOp           \* the event that produced this state

vars == <<user, status, analysisData, uploadedImages, uploads, nextUrl,
          errorTimers, reports, alerts, lastOp>>

\* files.map(file => URL.createObjectURL(file)): one fresh URL per file, in
\* file order
createObjectURLs(files, first) == [i \in 1..Len(files) |-> BlobUrl(first + i - 1)]

\* a destination that is always the user's own address
targetEmail_ownAddress(email, u) == u.email

\* email || user.email
targetEmail(email, u) == IF email = NoEmail \/ email = "" THEN u.email ELSE email

\* ------------------------------------------------------------- rendering
LoginRendered == user = Null

UploaderRendered ==
  /\ user # Null
  /\ status \in {IDLE, UPLOADING, ANALYZING, ERROR}

DashboardRendered ==
  /\ user # Null
  /\ ~(status \in {IDLE, UPLOADING, ANALYZING, ERROR})
  /\ analysisData # Null

\* a render whose uploader branch leaves out ERROR
View_noError ==
  IF user = Null THEN "Login"
  ELSE IF status = IDLE \/ status = UPLOADING \/ status = ANALYZING
         THEN "ImageUploader"
  ELSE IF analysisData # Null THEN "Dashboard"
  ELSE "nothing"

\* what App returns: <Login>, or the header with <ImageUploader>, with
\* <Dashboard>, or with nothing (analysisData && ... on a null result)
View ==
  IF user = Null THEN "Login"
  ELSE IF status = IDLE \/ status = UPLOADING \/ status = ANALYZING
            \/ status = ERROR
         THEN "ImageUploader"
  ELSE IF analysisData # Null THEN "Dashboard"
  ELSE "nothing"

\* the handlers the rendered elements are given as props
Presented ==
  IF View = "Login" THEN {"onLogin"}
  ELSE {"handleLogout"} \cup
       (IF View = "ImageUploader" THEN {"onUpload"}
        ELSE IF View = "Dashboard" THEN {"onReset", "onDownloadReport"}
        ELSE {})

\* ------------------------------------------------------------------ Init
Init ==
  /\ user = Null
  /\ status = IDLE
  /\ analysisData = Null
  /\ uploadedImages = <<>>
  /\ uploads = <<>>
  /\ nextUrl = 1
  /\ errorTimers = <<>>
  /\ reports = <<>>
  /\ alerts = <<>>
  /\ lastOp = "init"

\* --------------------------------------------------------------- actions
handleLogin(userInfo) ==
  /\ LoginRendered
  /\ user' = userInfo
  /\ lastOp' = "login"
  /\ UNCHANGED <<status, analysisData, uploadedImages, uploads, nextUrl,
                 errorTimers, reports, alerts>>

\* handleLogout without its setStatus(AnalysisStatus.IDLE)
handleLogout_keepStatus ==
  /\ user # Null
  /\ user' = Null
  /\ analysisData' = Null
  /\ uploadedImages' = <<>>
  /\ lastOp' = "logout"
  /\ UNCHANGED <<status, uploads, nextUrl, errorTimers, reports, alerts>>

\* handleLogout without its setUploadedImages([])
handleLogout_keepImages ==
  /\ user # Null
  /\ user' = Null
  /\ analysisData' = Null
  /\ status' = IDLE
  /\ lastOp' = "logout"
  /\ UNCHANGED <<uploadedImages, uploads, nextUrl, errorTimers, reports, alerts>>

handleLogout ==
  /\ user # Null
  /\ user' = Null
  /\ analysisData' = Null
  /\ uploadedImages' = <<>>
  /\ status' = IDLE
  /\ lastOp' = "logout"
  /\ UNCHANGED <<uploads, nextUrl, errorTimers, reports, alerts>>

\* handleUpload with setUploadedImages(newImageUrls) in place of the append
handleUpload_replaceImages(files) ==
  /\ UploaderRendered
  /\ Len(uploads) < MaxSubmissions
  /\ LET newImageUrls == createObjectURLs(files, nextUrl) IN
       /\ status' = UPLOADING
       /\ uploadedImages' = newImageUrls
       /\ nextUrl' = nextUrl + Len(files)
       /\ uploads' = Append(uploads, [pc |-> "delay", files |-> files,
                                      newImageUrls |-> newImageUrls])
  /\ lastOp' = "submit"
  /\ UNCHANGED <<user, analysisData, errorTimers, reports, alerts>>

\* handleUpload without its await of the 1000 ms pause: the analysis is called
\* from the submit event itself
handleUpload_noDelay(files) ==
  /\ UploaderRendered
  /\ Len(uploads) < MaxSubmissions
  /\ LET newImageUrls == createObjectURLs(files, nextUrl) IN
       /\ status' = ANALYZING
       /\ uploadedImages' = uploadedImages \o newImageUrls
       /\ nextUrl' = nextUrl + Len(files)
       /\ uploads' = Append(uploads, [pc |-> "analyzing", files |-> files,
                                      newImageUrls |-> newImageUrls])
  /\ lastOp' = "submit"
  /\ UNCHANGED <<user, analysisData, errorTimers, reports, alerts>>

\* handleUpload up to its first await
handleUpload(files) ==
  /\ UploaderRendered
  /\ Len(uploads) < MaxSubmissions
  /\ LET newImageUrls == createObjectURLs(files, nextUrl) IN
       /\ status' = UPLOADING
       /\ uploadedImages' = uploadedImages \o newImageUrls
       /\ nextUrl' = nextUrl + Len(files)
       /\ uploads' = Append(uploads, [pc |-> "delay", files |-> files,
                                      newImageUrls |-> newImageUrls])
  /\ lastOp' = "submit"
  /\ UNCHANGED <<user, analysisData, errorTimers, reports, alerts>>

\* handleUpload when URL.createObjectURL throws on one of the files (a payload
\* that is no Blob): setStatus(UPLOADING) has been called, the references
\* created before the throw are lost, setUploadedImages is never reached and
\* the async function rejects outside its try block
handleUpload_createThrows(files) ==
  /\ UploaderRendered
  /\ Len(uploads) < MaxSubmissions
  /\ \E created \in 0..(Len(files) - 1) :
       /\ status' = UPLOADING
       /\ nextUrl' = nextUrl + created
       /\ uploads' = Append(uploads, [pc |-> "uncaught", files |-> files,
                                      newImageUrls |-> <<>>])
  /\ lastOp' = "submitThrew"
  /\ UNCHANGED <<user, analysisData, uploadedImages, errorTimers, reports,
                 alerts>>

\* the 1000 ms timer fires: setStatus(ANALYZING) and the call of
\* analyzeCrimeSceneImages(files). Timers of equal delay fire in the order
\* they were armed.
handleUpload_delayElapsed(k) ==
  /\ k \in 1..Len(uploads)
  /\ uploads[k].pc = "delay"
  /\ \A j \in 1..(k - 1) : uploads[j].pc # "delay"
  /\ status' = ANALYZING
  /\ uploads' = [uploads EXCEPT ![k].pc = "analyzing"]
  /\ lastOp' = "delay"
  /\ UNCHANGED <<user, analysisData, uploadedImages, nextUrl, errorTimers,
                 reports, alerts>>

\* analyzeCrimeSceneImages resolves with data
handleUpload_resolved(k, data) ==
  /\ k \in 1..Len(uploads)
  /\ uploads[k].pc = "analyzing"
  /\ analysisData' = [data EXCEPT !.imageUrls = uploads[k].newImageUrls]
  /\ status' = COMPLETE
  /\ uploads' = [uploads EXCEPT ![k].pc = "complete"]
  /\ lastOp' = "resolve"
  /\ UNCHANGED <<user, uploadedImages, nextUrl, errorTimers, reports, alerts>>

\* a catch block that goes straight back to IDLE instead of showing ERROR
handleUpload_failed_toIdle(k) ==
  /\ k \in 1..Len(uploads)
  /\ uploads[k].pc = "analyzing"
  /\ status' = IDLE
  /\ uploads' = [uploads EXCEPT ![k].pc = "error"]
  /\ lastOp' = "fail"
  /\ UNCHANGED <<user, analysisData, uploadedImages, nextUrl, errorTimers,
                 reports, alerts>>

\* analyzeCrimeSceneImages rejects: the catch block
handleUpload_failed(k) ==
  /\ k \in 1..Len(uploads)
  /\ uploads[k].pc = "analyzing"
  /\ status' = ERROR
  /\ errorTimers' = Append(errorTimers, Len(uploads))
  /\ uploads' = [uploads EXCEPT ![k].pc = "error"]
  /\ lastOp' = "fail"
  /\ UNCHANGED <<user, analysisData, uploadedImages, nextUrl, reports, alerts>>

\* the 3000 ms timer armed by the catch block fires: the oldest one, and not
\* before the 1000 ms timers that were armed before it
errorTimerFired ==
  /\ errorTimers # <<>>
  /\ \A j \in 1..Head(errorTimers) : uploads[j].pc # "delay"
  /\ errorTimers' = Tail(errorTimers)
  /\ status' = IDLE
  /\ lastOp' = "errorTimer"
  /\ UNCHANGED <<user, analysisData, uploadedImages, uploads, nextUrl,
                 reports, alerts>>

\* onReset without its setAnalysisData(null)
onReset_keepResult ==
  /\ DashboardRendered
  /\ uploadedImages' = <<>>
  /\ status' = IDLE
  /\ lastOp' = "reset"
  /\ UNCHANGED <<user, analysisData, uploads, nextUrl, errorTimers, reports,
                 alerts>>

onReset ==
  /\ DashboardRendered
  /\ analysisData' = Null
  /\ uploadedImages' = <<>>
  /\ status' = IDLE
  /\ lastOp' = "reset"
  /\ UNCHANGED <<user, uploads, nextUrl, errorTimers, reports, alerts>>

\* handleDownloadReport whose guard tests only the user
handleDownloadReport_userOnly(email) ==
  /\ Len(reports) + Len(alerts) < MaxDispatch
  /\ IF user = Null
       THEN /\ lastOp' = "dispatchNoop"
            /\ UNCHANGED reports
       ELSE /\ reports' = Append(reports,
                 [data |-> analysisData, user |-> user,
                  email |-> targetEmail(email, user), requested |-> email])
            /\ lastOp' = "dispatch"
  /\ UNCHANGED <<user, status, analysisData, uploadedImages, uploads, nextUrl,
                 errorTimers, alerts>>

\* The report-dispatch entry point. Dashboard is its caller in the UI, but the
\* handler states its own precondition, so a request is possible in every
\* state and the handler decides what becomes of it.
\* handleDownloadReport up to its await.
handleDownloadReport(email) ==
  /\ Len(reports) + Len(alerts) < MaxDispatch
  /\ IF analysisData = Null \/ user = Null
       THEN /\ lastOp' = "dispatchNoop"
            /\ UNCHANGED reports
       ELSE /\ reports' = Append(reports,
                 [data |-> analysisData, user |-> user,
                  email |-> targetEmail(email, user), requested |-> email])
            /\ lastOp' = "dispatch"
  /\ UNCHANGED <<user, status, analysisData, uploadedImages, uploads, nextUrl,
                 errorTimers, alerts>>

\* a handler that calls generateAndSendReport again after a false outcome
handleDownloadReport_resolved_retry(r, success) ==
  /\ r \in 1..Len(reports)
  /\ IF success
       THEN /\ reports' = SubSeq(reports, 1, r - 1)
                            \o SubSeq(reports, r + 1, Len(reports))
            /\ alerts' = Append(alerts,
                 [kind |-> "transmitted", email |-> reports[r].email,
                  success |-> success])
       ELSE UNCHANGED <<reports, alerts>>
  /\ lastOp' = "dispatchDone"
  /\ UNCHANGED <<user, status, analysisData, uploadedImages, uploads, nextUrl,
                 errorTimers>>

\* generateAndSendReport resolves with success
handleDownloadReport_resolved(r, success) ==
  /\ r \in 1..Len(reports)
  /\ reports' = SubSeq(reports, 1, r - 1) \o SubSeq(reports, r + 1, Len(reports))
  /\ alerts' = Append(alerts,
       IF success THEN [kind |-> "transmitted", email |-> reports[r].email,
                        success |-> success]
                  ELSE [kind |-> "failed", email |-> "", success |-> success])
  /\ lastOp' = "dispatchDone"
  /\ UNCHANGED <<user, status, analysisData, uploadedImages, uploads, nextUrl,
                 errorTimers>>

Next ==
  \/ \E userInfo \in UserProfile : handleLogin(userInfo)
  \/ handleLogout
  \/ \E files \in FileLists : handleUpload(files)
  \/ \E k \in 1..MaxSubmissions : handleUpload_delayElapsed(k)
  \/ \E k \in 1..MaxSubmissions, data \in Results : handleUpload_resolved(k, data)
  \/ \E k \in 1..MaxSubmissions : handleUpload_failed(k)
  \/ errorTimerFired
  \/ onReset
  \/ \E email \in EmailArg : handleDownloadReport(email)
  \/ \E r \in 1..MaxDispatch, success \in BOOLEAN : handleDownloadReport_resolved(r, success)

Spec == Init /\ [][Next]_vars

\* The same program in the hands of a user who only ever selects files while
\* the uploader shows Status = Idle: every behaviour of IdleSpec is a
\* behaviour of Spec.
handleUpload_fromIdle(files) == status = IDLE /\ handleUpload(files)

NextFromIdle ==
  \/ \E userInfo \in UserProfile : handleLogin(userInfo)
  \/ handleLogout
  \/ \E files \in FileLists : handleUpload_fromIdle(files)
  \/ \E k \in 1..MaxSubmissions : handleUpload_delayElapsed(k)
  \/ \E k \in 1..MaxSubmissions, data \in Results : handleUpload_resolved(k, data)
  \/ \E k \in 1..MaxSubmissions : handleUpload_failed(k)
  \/ errorTimerFired
  \/ onReset
  \/ \E email \in EmailArg : handleDownloadReport(email)
  \/ \E r \in 1..MaxDispatch, success \in BOOLEAN : handleDownloadReport_resolved(r, success)

IdleSpec == Init /\ [][NextFromIdle]_vars

\* IdleSpec with payloads that URL.createObjectURL may reject
handleUpload_createThrows_fromIdle(files) ==
  status = IDLE /\ handleUpload_createThrows(files)

NextThrow ==
  \/ NextFromIdle
  \/ \E files \in FileLists : handleUpload_createThrows_fromIdle(files)

ThrowSpec == Init /\ [][NextThrow]_vars

\* the continuations of handleUpload and of handleDownloadReport are timer and
\* promise callbacks: the event loop runs each one that is due
UploadFairness ==
  \A k \in 1..MaxSubmissions :
    /\ WF_vars(handleUpload_delayElapsed(k))
    /\ WF_vars((\E data \in Results : handleUpload_resolved(k, data))
                 \/ handleUpload_failed(k))

FairSpec == Init /\ [][Next]_vars /\ UploadFairness


\* ======================================================================
\* Properties
\* ======================================================================
InFlight == {k \in 1..Len(uploads) : uploads[k].pc \in {"delay", "analyzing"}}

\* C1: in every reachable state an AnalysisResult is stored if and only if
\* Status = Complete.
C1_ResultIffComplete == (analysisData # Null) <=> (status = COMPLETE)

\* C2: in every reachable state the accumulated image-reference list is
\* non-empty only while Status is Uploading, Analyzing or Complete; it is
\* empty whenever Status is Idle or Error.
C2_ImagesOnlyWhileActive ==
  uploadedImages # <<>> => status \in {UPLOADING, ANALYZING, COMPLETE}
\* C3: a submission leaves Status = Uploading; Status becomes Analyzing only
\* in the step in which some submission's delay elapses; and the analysis
\* collaborator is called for a submission only in that step, from its
\* delay phase, never in the submit step or while it still waits.
C3_Step ==
  /\ lastOp' = "submit" =>
       /\ status' = UPLOADING
       /\ Len(uploads') = Len(uploads) + 1
       /\ uploads'[Len(uploads')].pc = "delay"
  /\ (status' = ANALYZING /\ status # ANALYZING) =>
       \E k \in 1..Len(uploads) :
         uploads[k].pc = "delay" /\ uploads'[k].pc = "analyzing"
  /\ \A k \in 1..Len(uploads') :
       (uploads'[k].pc = "analyzing"
          /\ (k > Len(uploads) \/ uploads[k].pc # "analyzing")) =>
         /\ k <= Len(uploads)
         /\ uploads[k].pc = "delay"
         /\ status' = ANALYZING

C3_UploadingThenAnalyzing == [][C3_Step]_vars

\* C3 witness: a submission made in Idle has passed its delay and is being
\* analysed
C3_Witness ==
  /\ lastOp = "delay"
  /\ status = ANALYZING
  /\ Len(uploads) = 1
  /\ uploads[1].pc = "analyzing"

\* C4: every submission ends, and in the step that ends it Status is set to
\* Complete (the collaborator resolved) or to Error (it failed), one of the
\* two and only once, whatever else happens in between.
C4_EndStep ==
  \A k \in 1..Len(uploads) :
    /\ uploads[k].pc \in {"complete", "error"} => uploads'[k] = uploads[k]
    /\ (uploads[k].pc # "complete" /\ uploads'[k].pc = "complete") =>
         (uploads[k].pc = "analyzing" /\ status' = COMPLETE)
    /\ (uploads[k].pc # "error" /\ uploads'[k].pc = "error") =>
         (uploads[k].pc = "analyzing" /\ status' = ERROR)

C4_Terminates ==
  /\ \A k \in 1..MaxSubmissions :
       (k <= Len(uploads)) ~>
         (k <= Len(uploads) /\ uploads[k].pc \in {"complete", "error"})
  /\ [][C4_EndStep]_vars

\* C4 witness: two submissions overlapped across a logout and both ended
C4_Witness ==
  /\ Len(uploads) = 2
  /\ uploads[1].pc = "complete"
  /\ uploads[2].pc = "error"
  /\ user = Null

\* C5: when the analysis collaborator resolves, the image-reference list
\* attached to the stored AnalysisResult equals the accumulated
\* image-reference list held at that moment.
C5_ResultCarriesAccumulated ==
  lastOp = "resolve" => analysisData.imageUrls = uploadedImages

\* C6: when the analysis collaborator fails, Status is Error right after the
\* failure and Idle right after the error timer fires, and no AnalysisResult
\* is stored at either point.
C6_FailureThenIdle ==
  /\ lastOp = "fail" => (status = ERROR /\ analysisData = Null)
  /\ lastOp = "errorTimer" => (status = IDLE /\ analysisData = Null)

\* C7: logout, from whatever state, yields Status = Idle, no user, no
\* AnalysisResult and an empty image-reference list.
C7_LogoutClears ==
  lastOp = "logout" =>
    /\ status = IDLE
    /\ user = Null
    /\ analysisData = Null
    /\ uploadedImages = <<>>

\* C7 witness: a logout taken while a submission was in flight and images
\* had accumulated
C7_Witness ==
  /\ lastOp = "logout"
  /\ InFlight # {}
  /\ errorTimers # <<>>

\* C8: reset, which is offered in Complete, yields Status = Idle with no
\* AnalysisResult and an empty image-reference list, and keeps the user.
C8_Step ==
  lastOp' = "reset" =>
    /\ status = COMPLETE
    /\ status' = IDLE
    /\ analysisData' = Null
    /\ uploadedImages' = <<>>
    /\ user' = user
    /\ user' # Null

C8_ResetClears == [][C8_Step]_vars

\* C8 witness: a reset has just been taken
C8_Witness ==
  /\ lastOp = "reset"
  /\ status = IDLE
  /\ user # Null

\* C9: a dispatch request made with no stored AnalysisResult or no user calls
\* the dispatch collaborator not at all and shows no message.
C9_Step ==
  (lastOp' \in {"dispatch", "dispatchNoop"}
     /\ (analysisData = Null \/ user = Null)) =>
    /\ reports' = reports
    /\ alerts' = alerts
    /\ lastOp' = "dispatchNoop"

C9_NoDispatchWithoutPrecondition == [][C9_Step]_vars

\* C9 witness: a request was made by a logged-in user with no result stored
C9_Witness ==
  /\ lastOp = "dispatchNoop"
  /\ user # Null
  /\ analysisData = Null
  /\ reports = <<>>
  /\ alerts = <<>>

\* C10: at most one upload/analysis cycle is in flight at any time.
C10_OneCycleInFlight == Cardinality(InFlight) <= 1

\* C11: every failure during a submission, in reference creation or in the
\* analysis collaborator, is caught and leaves Status = Error.
C11_FailuresBecomeError ==
  lastOp \in {"fail", "submitThrew"} => status = ERROR

\* C12: a dispatch request made with an AnalysisResult stored and a user
\* logged in calls the dispatch collaborator, once, with the stored result
\* and the current user as they are, and with the override address when one
\* is given, the user's own address when none (or an empty one) is.
C12_Step ==
  (lastOp' \in {"dispatch", "dispatchNoop"}
     /\ analysisData # Null /\ user # Null) =>
    /\ lastOp' = "dispatch"
    /\ Len(reports') = Len(reports) + 1
    /\ SubSeq(reports', 1, Len(reports)) = reports
    /\ LET call == reports'[Len(reports')] IN
         /\ call.data = analysisData
         /\ call.user = user
         /\ call.email = IF call.requested \in {NoEmail, ""}
                            THEN user.email ELSE call.requested

C12_DispatchArguments == [][C12_Step]_vars

\* C12 witness: a call is pending that was requested with an override
\* address different from the user's own
C12_Witness ==
  /\ lastOp = "dispatch"
  /\ Len(reports) = 1
  /\ reports[1].requested = "lab@pd"
  /\ reports[1].email = "lab@pd"
  /\ reports[1].user = user

\* C13: a dispatch request calls the dispatch collaborator once; its outcome
\* ends that call (no second call after false) and shows one message, the
\* success message exactly when the outcome is true; and neither step
\* changes Status, the AnalysisResult, the image-reference list or the user.
C13_Step ==
  /\ lastOp' = "dispatch" =>
       /\ Len(reports') = Len(reports) + 1
       /\ alerts' = alerts
       /\ UNCHANGED <<status, analysisData, uploadedImages, user>>
  /\ lastOp' = "dispatchDone" =>
       /\ Len(reports') = Len(reports) - 1
       /\ Len(alerts') = Len(alerts) + 1
       /\ SubSeq(alerts', 1, Len(alerts)) = alerts
       /\ LET shown == alerts'[Len(alerts')] IN
            shown.kind = IF shown.success THEN "transmitted" ELSE "failed"
       /\ UNCHANGED <<status, analysisData, uploadedImages, user>>
  /\ lastOp' \notin {"dispatch", "dispatchDone"} =>
       UNCHANGED <<reports, alerts>>

C13_OneCallOneNotice == [][C13_Step]_vars

\* C13 witness: a call ended with the outcome false and its one message
C13_Witness ==
  /\ lastOp = "dispatchDone"
  /\ reports = <<>>
  /\ Len(alerts) = 1
  /\ alerts[1].kind = "failed"
  /\ status = COMPLETE

\* C14: the dashboard, and with it reset and report dispatch, is presented
\* only to a logged-in user with Status = Complete and an AnalysisResult
\* stored; a logged-in user is presented the uploader exactly when Status is
\* Idle, Uploading, Analyzing or Error; with no user only the login view is
\* presented; and login, submit and reset happen only from the view that
\* presents them.
C14_Rendering ==
  /\ (View = "Dashboard" \/ "onReset" \in Presented
        \/ "onDownloadReport" \in Presented) =>
       (user # Null /\ status = COMPLETE /\ analysisData # Null)
  /\ user # Null =>
       (View = "ImageUploader" <=> status \in {IDLE, UPLOADING, ANALYZING, ERROR})
  /\ user # Null => ("onUpload" \in Presented <=> View = "ImageUploader")
  /\ user = Null => (View = "Login" /\ Presented = {"onLogin"})

C14_Step ==
  /\ lastOp' = "login" => "onLogin" \in Presented
  /\ lastOp' = "submit" => "onUpload" \in Presented
  /\ lastOp' = "reset" => "onReset" \in Presented
  /\ lastOp' = "logout" => "handleLogout" \in Presented

C14_ViewFollowsState == []C14_Rendering /\ [][C14_Step]_vars

\* C14 witness: a logged-in user is shown the uploader, not the dashboard, in
\* Status = Error although the result of an overlapping submission is stored
C14_Witness ==
  /\ user # Null
  /\ status = ERROR
  /\ analysisData # Null
  /\ View = "ImageUploader"

\* C15: selecting files appends the new references, one per file and in file
\* order, to the end of the accumulated list, keeping what was in it; and the
\* list loses references only by being emptied in a logout or a reset.
C15_Step ==
  /\ lastOp' = "submit" =>
       LET new == uploads'[Len(uploads')] IN
         /\ uploadedImages' = uploadedImages \o new.newImageUrls
         /\ Len(new.newImageUrls) = Len(new.files)
         /\ \A i \in 1..Len(new.files) :
              new.newImageUrls[i] = BlobUrl(nextUrl + i - 1)
  /\ (Len(uploadedImages') < Len(uploadedImages)
        \/ SubSeq(uploadedImages', 1, Len(uploadedImages)) # uploadedImages) =>
       (lastOp' \in {"logout", "reset"} /\ uploadedImages' = <<>>)

C15_AppendOnly == [][C15_Step]_vars

\* C15 witness: files were selected while the list already held references
C15_Witness ==
  /\ lastOp = "submit"
  /\ Len(uploadedImages) = 4
  /\ uploadedImages[3] = BlobUrl(3)
  /\ uploadedImages[4] = BlobUrl(4)

\* C16: the error timer, when it fires, finds Status at Error (or already
\* Idle), never at Uploading, Analyzing or Complete.
C16_Step ==
  lastOp' = "errorTimer" => status \notin {UPLOADING, ANALYZING, COMPLETE}

C16_TimerOnlyLeavesError == [][C16_Step]_vars

\* C17: while no user is logged in, Status is Idle, no AnalysisResult is
\* stored and the image-reference list is empty.
C17_ClearedWhileLoggedOut ==
  user = Null =>
    (status = IDLE /\ analysisData = Null /\ uploadedImages = <<>>)

\* C18: whenever Status = Complete, the stored AnalysisResult carries the
\* references of the most recently started submission.
C18_ResultOfLatestSubmission ==
  (status = COMPLETE /\ analysisData # Null) =>
    (uploads # <<>>
       /\ analysisData.imageUrls = uploads[Len(uploads)].newImageUrls)

\* C19: in every reachable state Status = Complete implies that an
\* AnalysisResult is stored.
C19_CompleteHasResult == status = COMPLETE => analysisData # Null

\* C19 witness: Complete reached by one submission while the error timer of
\* another, overlapping one is still armed
C19_Witness ==
  /\ status = COMPLETE
  /\ analysisData # Null
  /\ errorTimers # <<>>
====
